---- MODULE Spec2Model ----
(***************************************************************************)
(* The three-stage data-preparation pipeline of the voice-accent           *)
(* repository: ingestion (scripts/ingest_audio.py), the normalizer         *)
(* (scripts/process_audio.py) and the transcriber                          *)
(* (scripts/transcribe_audio.py), communicating through the file system,   *)
(* and the speech process: the engines of src/tts and the web handler of   *)
(* src/ui/app.py with its engine cache.                                    *)
(*                                                                         *)
(* File names are sequences of tokens, so that prefixing, stem extraction  *)
(* and glob matching are computed on the name as the code computes them.   *)
(***************************************************************************)
EXTENDS Naturals, Sequences, FiniteSets, TLC

VARIABLES
    intake,   \* the intake tree: the set of raw files under raw_dir
    dirs,     \* the directories that exist
    audio,    \* <output_dir>/audio     : name -> file
    rawd,     \* <segments_dir>/raw     : name -> file
    proc,     \* <segments_dir>/processed : name -> file
    trans,    \* <transcripts_dir>      : name -> record file
    clock,    \* the file system's clock (source of modification times)
    pc,       \* which stage loop is running, "idle" between commands
    todo,     \* the files of the running loop not yet visited
    cnt,      \* the running loop's counters and log tallies
    res,      \* outcome of the last command: stage, return value, exit code
    hist,     \* observations of past runs, used to state the properties
    tts,      \* the speech process: engine cache, engine objects, last call
    pool      \* the files that a worker of a pool is copying

vars ==
    <<intake, dirs, audio, rawd, proc, trans, clock, pc, todo, cnt, res, hist, tts,
      pool>>

-----------------------------------------------------------------------------
(* Bounds of the model *)

MaxFiles == 3
MaxRuns == 3
MaxClock == 1

-----------------------------------------------------------------------------
(* Names *)

Dot == "."
Dash == "-"

\* raw_dir.name for the default --raw-dir data/raw
RootName == <<"raw">>

\* the sentinel of folder_mapping.get(src, "unknown")
Unknown == <<"unknown">>

\* audio_exts, in the order the discovery loop visits them
AudioExts == <<"wav", "mp3", "flac", "m4a", "ogg">>

RECURSIVE RFind(_, _, _)
\* str.rfind: the greatest index i <= from with s[i] = c, 0 when there is none
RFind(s, c, from) ==
    IF from = 0 THEN 0
    ELSE IF s[from] = c THEN from
    ELSE RFind(s, c, from - 1)

\* pathlib's PurePath.stem: the name up to its last dot, the whole name when
\* the last dot is the first or the last character or there is none
PathStem(name) ==
    LET i == RFind(name, Dot, Len(name))
    IN  IF 1 < i /\ i < Len(name) THEN SubSeq(name, 1, i - 1) ELSE name

\* pathlib's PurePath.suffix
PathSuffix(name) ==
    LET i == RFind(name, Dot, Len(name))
    IN  IF 1 < i /\ i < Len(name) THEN SubSeq(name, i, Len(name)) ELSE <<>>

\* fnmatch of the pattern '*.<ext>' against a file name
GlobMatch(name, ext) ==
    /\ Len(name) >= 2
    /\ name[Len(name) - 1] = Dot
    /\ name[Len(name)] = ext

\* the position of the pattern '*.<ext>' of exts that matches name, 0 for none
PatternRank(exts, name) ==
    IF \E i \in DOMAIN exts : GlobMatch(name, exts[i])
    THEN CHOOSE i \in DOMAIN exts : GlobMatch(name, exts[i])
    ELSE 0

-----------------------------------------------------------------------------
(* Files *)

\* a truncated file: what an interrupted write leaves at the destination
Truncated(d) == [id |-> d.id, samples |-> 0, ok |-> FALSE, norm |-> FALSE, sig |-> <<>>]

NoFiles == [m \in {} |-> 0]

\* the directory dir with file f written under name n
Put(dir, n, f) == [m \in (DOMAIN dir) \cup {n} |-> IF m = n THEN f ELSE dir[m]]

Names(dir) == DOMAIN dir

\* the counters of a stage function, the number of models it has loaded,
\* which of them it has given a file to, and the per-file lines it logged, as
\* <<kind, file>>
ZeroCnt ==
    [done |-> 0, skipped |-> 0, short |-> 0, errors |-> 0, loads |-> 0,
     uses |-> {}, log |-> {}]

\* cnt after logging a line of kind k about file f and counting it under k
Logged(c, k, f) ==
    [c EXCEPT !.log = @ \cup {<<k, f>>},
              !.done = IF k = "done" THEN @ + 1 ELSE @,
              !.skipped = IF k = "skipped" THEN @ + 1 ELSE @,
              !.short = IF k = "short" THEN @ + 1 ELSE @,
              !.errors = IF k = "error" THEN @ + 1 ELSE @]

\* no command has finished: cmd is the stage, ran whether the stage function
\* was called, ret its return value, exit main's return, errs the errors logged
NoRes == [cmd |-> "none", ran |-> FALSE, ret |-> 0, exit |-> 0, errs |-> 0]

\* what a caller and the log show of a finished command: the stage, whether
\* its stage function went through its file list, its return value, and the
\* numbers of error, skipped and too-short lines it logged
NoOutcome ==
    [cmd |-> "none", passed |-> FALSE, ret |-> 0, errs |-> 0,
     skipped |-> 0, short |-> 0]

\* the last command called its stage function, which found its input
\* directory, loaded what it needs and went through its file list
Passed ==
    /\ res.ran
    /\ \/ res.cmd = "ingest" /\ "intake" \in hist.dirs0
       \/ res.cmd = "norm" /\ "raw" \in hist.dirs0
       \/ res.cmd = "trans" /\ "audio" \in hist.dirs0 /\ cnt.loads >= 1

Outcome ==
    [cmd |-> res.cmd, passed |-> Passed, ret |-> res.ret,
     errs |-> res.errs, skipped |-> cnt.skipped, short |-> cnt.short]

NoHist ==
    [runs |-> 0,          \* commands started so far
     ingests |-> 0,       \* ingestion runs returned so far
     start |-> {},        \* the intake tree at the start of the last ingestion run
     pstart |-> {},       \* the same for the ingestion run before it
     end |-> {},          \* the staged names when the last ingestion run returned
     pend |-> {},         \* the same for the ingestion run before it
     nstart |-> NoFiles,  \* the normalizer's input directory when its last run began
     proc0 |-> NoFiles,   \* the normalized files when the normalizer's last run began
     astart |-> NoFiles,  \* the transcriber's audio directory when its last run began
     pnames |-> {},       \* the audio files of the transcriber run before it
     tstart |-> NoFiles,  \* the transcripts when the transcriber's last run began
     dirs0 |-> {},        \* the directories that existed when the last command began
     nreads |-> {},       \* the paths the normalizer's last run took as its inputs
     treads |-> {},       \* the paths the transcriber's last run took as its inputs
     pipe |-> 0,          \* progress through ingestion, normalizer, transcriber in order
     prev |-> NoOutcome]  \* what the command before the last one reported

\* where a run of the three commands in pipeline order stands after cmd ends
Progress(p, cmd) ==
    IF p = 0 /\ cmd = "ingest" THEN 1
    ELSE IF p = 1 /\ cmd = "norm" THEN 2
    ELSE IF p = 2 /\ cmd = "trans" THEN 3
    ELSE p

-----------------------------------------------------------------------------
(* Ingestion: scripts/ingest_audio.py *)

\* audio_output_dir = output_dir / "audio"
IngestOutputDir == "audio"

\* audio_file.parent.name
FolderName(f) == IF f.dir = <<>> THEN RootName ELSE f.dir[Len(f.dir)]

\* the test that puts a file into folder_mapping
InFolderMapping(f) == FolderName(f) # RootName

\* folder_mapping.get(src, "unknown")
Tag(f) == IF InFolderMapping(f) THEN FolderName(f) ELSE Unknown

\* new_name = f"{folder_name}-{src.name}"
StagedName(f) == Tag(f) \o <<Dash>> \o f.name

\* the rank of the first pattern of audio_exts that a name matches, 0 for none
ExtRank(name) == PatternRank(AudioExts, name)

\* files_found: everything under raw_dir that one of the patterns matches
Discover(tree) == {f \in tree : ExtRank(f.name) > 0}

\* the files that can come next in files_found: patterns are visited in order,
\* the order within one pattern is the directory walk's
NextFound(t) == {f \in t : \A g \in t : ExtRank(f.name) <= ExtRank(g.name)}

SkipNever(dst) == FALSE

\* if dst.exists(): ... continue
SkipExisting(dst) == dst \in Names(audio)

\* shutil.copy2(src, dst): an unreadable source fails before the destination
\* is created, a read error during the copy leaves a truncated destination
\* behind; a successful copy carries the source's content and times
Copy2(src, dst) ==
    IF src.perm = "ok"
    THEN /\ audio' = Put(audio, dst, [data |-> src.data, mtime |-> src.mtime])
         /\ cnt' = Logged(cnt, "done", src)
    ELSE IF src.perm = "ioerr"
    THEN /\ audio' = Put(audio, dst, [data |-> Truncated(src.data), mtime |-> clock])
         /\ cnt' = Logged(cnt, "error", src)
    ELSE /\ audio' = audio
         /\ cnt' = Logged(cnt, "error", src)

\* main() up to the call, and ingest_audio_files up to the copy loop, with
\* tree the files that raw_dir.rglob walks
IngestMainOver(tree) ==
    /\ pc = "idle"
    /\ hist.runs < MaxRuns
    /\ IF "intake" \notin dirs
       THEN /\ res' = [cmd |-> "ingest", ran |-> FALSE, ret |-> 0, exit |-> 1, errs |-> 1]
            /\ hist' = [hist EXCEPT !.runs = @ + 1, !.prev = Outcome, !.dirs0 = dirs,
                                    !.pipe = Progress(hist.pipe, "ingest")]
            /\ cnt' = ZeroCnt
            /\ UNCHANGED <<dirs, pc, todo>>
       ELSE /\ dirs' = dirs \cup {"segments", IngestOutputDir}
            /\ todo' = Discover(tree)
            /\ cnt' = ZeroCnt
            /\ pc' = "ingest"
            /\ hist' = [hist EXCEPT !.runs = @ + 1, !.prev = Outcome, !.dirs0 = dirs,
                                    !.start = tree, !.pstart = hist.start]
            /\ res' = NoRes
    /\ UNCHANGED <<intake, audio, rawd, proc, trans, clock, tts, pool>>

\* the command with its defaults: the staging directory data/processed/audio
\* lies outside the intake root data/raw
IngestMain == IngestMainOver(intake)

\* where the staging directory lies under the intake root when the command
\* is given --output-dir data/raw/out
NestedOutputDir == << <<"out">>, <<IngestOutputDir>> >>

\* the staged files as the walk of the intake root meets them
StagedUnderIntake ==
    {[dir |-> NestedOutputDir, name |-> n, data |-> audio[n].data,
      mtime |-> audio[n].mtime, perm |-> "ok"] : n \in Names(audio)}

\* the command with --output-dir data/raw/out
IngestMainNested == IngestMainOver(intake \cup StagedUnderIntake)

\* the copy loop with the try around it instead of inside it: the first
\* failing copy ends the loop
IngestFileAbort ==
    /\ pc = "ingest"
    /\ \E src \in NextFound(todo) :
          /\ todo' = IF ~SkipExisting(StagedName(src)) /\ src.perm # "ok"
                     THEN {} ELSE todo \ {src}
          /\ IF SkipExisting(StagedName(src))
             THEN /\ cnt' = Logged(cnt, "skipped", src)
                  /\ audio' = audio
             ELSE Copy2(src, StagedName(src))
    /\ UNCHANGED <<intake, dirs, rawd, proc, trans, clock, pc, res, hist, tts, pool>>

\* the copy loop of a mirroring tool: an existing destination is skipped only
\* when it holds the source's content
IngestFileRefresh ==
    /\ pc = "ingest"
    /\ \E src \in NextFound(todo) :
          /\ todo' = todo \ {src}
          /\ IF /\ SkipExisting(StagedName(src))
                /\ audio[StagedName(src)].data = src.data
             THEN /\ cnt' = Logged(cnt, "skipped", src)
                  /\ audio' = audio
             ELSE Copy2(src, StagedName(src))
    /\ UNCHANGED <<intake, dirs, rawd, proc, trans, clock, pc, res, hist, tts, pool>>

\* one iteration of the copy loop
IngestFile ==
    /\ pc = "ingest"
    /\ \E src \in NextFound(todo) :
          /\ todo' = todo \ {src}
          /\ IF SkipExisting(StagedName(src))
             THEN /\ cnt' = Logged(cnt, "skipped", src)
                  /\ audio' = audio
             ELSE Copy2(src, StagedName(src))
    /\ UNCHANGED <<intake, dirs, rawd, proc, trans, clock, pc, res, hist, tts, pool>>

\* return copied_count, and main's return 0
IngestReturn ==
    /\ pc = "ingest"
    /\ todo = {}
    /\ pc' = "idle"
    /\ res' = [cmd |-> "ingest", ran |-> TRUE, ret |-> cnt.done, exit |-> 0,
               errs |-> cnt.errors]
    /\ hist' = [hist EXCEPT !.ingests = @ + 1, !.end = Names(audio),
                            !.pend = hist.end,
                            !.pipe = Progress(hist.pipe, "ingest")]
    /\ UNCHANGED <<intake, dirs, audio, rawd, proc, trans, clock, todo, cnt, tts, pool>>

\* a keyboard interrupt during the copy loop: the scripts catch Exception
\* only, so the interpreter ends with status 130; when it arrives during a
\* copy, what shutil.copy2 has written so far stays behind
Interrupt ==
    /\ pc = "ingest"
    /\ \/ audio' = audio
       \/ \E src \in NextFound(todo) :
             /\ ~SkipExisting(StagedName(src))
             /\ src.perm = "ok"
             /\ audio' = Put(audio, StagedName(src),
                             [data |-> Truncated(src.data), mtime |-> clock])
    /\ pc' = "idle"
    /\ todo' = {}
    /\ res' = [cmd |-> "ingest", ran |-> FALSE, ret |-> 0, exit |-> 130,
               errs |-> cnt.errors]
    /\ UNCHANGED <<intake, dirs, rawd, proc, trans, clock, cnt, hist, tts, pool>>

\* the workers of the pool
MaxWorkers == 2

\* the copy loop handed to a pool of workers: a worker takes any discovered
\* file and evaluates dst.exists(); unless it skips, the copy is its next step
PoolCheck ==
    /\ pc = "ingest"
    /\ Cardinality(pool) < MaxWorkers
    /\ \E src \in todo :
          /\ todo' = todo \ {src}
          /\ IF SkipExisting(StagedName(src))
             THEN /\ cnt' = Logged(cnt, "skipped", src)
                  /\ pool' = pool
             ELSE /\ cnt' = cnt
                  /\ pool' = pool \cup {src}
    /\ UNCHANGED <<intake, dirs, audio, rawd, proc, trans, clock, pc, res, hist, tts>>

\* a worker's shutil.copy2 and its count
PoolCopy ==
    /\ pc = "ingest"
    /\ \E src \in pool :
          /\ pool' = pool \ {src}
          /\ Copy2(src, StagedName(src))
    /\ UNCHANGED <<intake, dirs, rawd, proc, trans, clock, pc, todo, res, hist, tts>>

\* the pool is joined before return copied_count
PoolReturn == pool = {} /\ IngestReturn

-----------------------------------------------------------------------------
(* The normalizer: scripts/process_audio.py *)

SampleRate == 16000
MinSeconds == 2

\* raw_dir = segments_dir / "raw"
NormInputDir == "raw"

\* processed_dir = segments_dir / "processed"
NormOutputDir == "processed"

\* the patterns of audio_files = list(glob('*.wav')) + list(glob('*.mp3'))
NormExts == <<"wav", "mp3">>

\* audio_files
NormInputs(dir) == {n \in Names(dir) : PatternRank(NormExts, n) > 0}

\* the names that can come next in audio_files: the '*.wav' list, then '*.mp3'
NextInput(t) ==
    {n \in t : \A m \in t : PatternRank(NormExts, n) <= PatternRank(NormExts, m)}

LongEnoughInclusive(d) == d.samples >= SampleRate * MinSeconds

\* if len(y) > 16000 * 2
LongEnough(d) == d.samples > SampleRate * MinSeconds

ProcessedNameFromName(name) == name \o <<"_processed">> \o <<Dot, "wav">>

\* out_path = processed_dir / f"{audio_file.stem}_processed.wav"
ProcessedName(name) == PathStem(name) \o <<"_processed">> \o <<Dot, "wav">>

\* A decoded signal is a sequence of stretches <<power, share>>: the squared
\* amplitude of the samples of the stretch, in ten-thousandths of full scale,
\* and the stretch's share of the file's duration, in thousandths.  Loudness
\* is taken as the mean square of the samples, without the K-weighting filter
\* and the gating of BS.1770, and stays in the power domain:
\*     LUFS = -0.691 + 10 * log10(mean square).

\* the square of the bound 1.0 of np.clip(y_norm, -1.0, 1.0)
Unity == 10000

\* the mean square of a signal at -23.0 LUFS: 10 ^ ((-23.0 + 0.691) / 10)
TargetPower == 59

RECURSIVE Energy(_)
Energy(sig) ==
    IF sig = <<>> THEN 0 ELSE sig[1][1] * sig[1][2] + Energy(Tail(sig))

RECURSIVE Duration(_)
Duration(sig) == IF sig = <<>> THEN 0 ELSE sig[1][2] + Duration(Tail(sig))

\* pyln.normalize.loudness(y, meter.integrated_loudness(y), -23.0): every
\* sample times one gain, the power ratio of the target to the measurement
LoudnessNormalize(sig) ==
    [i \in DOMAIN sig |->
        <<(sig[i][1] * TargetPower * Duration(sig)) \div Energy(sig), sig[i][2]>>]

\* np.clip(y_norm, -1.0, 1.0)
HardClip(sig) ==
    [i \in DOMAIN sig |->
        <<IF sig[i][1] > Unity THEN Unity ELSE sig[i][1], sig[i][2]>>]

\* y_norm: the decoded samples after loudness normalisation and clipping
Normalized(d) == [d EXCEPT !.norm = TRUE, !.sig = HardClip(LoudnessNormalize(d.sig))]

\* main() up to the call, and process_audio_files up to the loop
NormMain ==
    /\ pc = "idle"
    /\ hist.runs < MaxRuns
    /\ IF "segments" \notin dirs
       THEN /\ res' = [cmd |-> "norm", ran |-> FALSE, ret |-> 0, exit |-> 1, errs |-> 1]
            /\ hist' = [hist EXCEPT !.runs = @ + 1, !.prev = Outcome, !.dirs0 = dirs, !.nreads = {},
                                    !.pipe = Progress(hist.pipe, "norm")]
            /\ cnt' = ZeroCnt
            /\ UNCHANGED <<dirs, pc, todo>>
       ELSE IF NormInputDir \notin dirs
       THEN \* return 0, which main reports as "No audio files were processed"
            /\ res' = [cmd |-> "norm", ran |-> TRUE, ret |-> 0, exit |-> 1, errs |-> 1]
            /\ hist' = [hist EXCEPT !.runs = @ + 1, !.prev = Outcome, !.dirs0 = dirs, !.nreads = {},
                                    !.pipe = Progress(hist.pipe, "norm")]
            /\ cnt' = ZeroCnt
            /\ UNCHANGED <<dirs, pc, todo>>
       ELSE /\ dirs' = dirs \cup {NormOutputDir}
            /\ todo' = NormInputs(rawd)
            /\ cnt' = ZeroCnt
            /\ pc' = "norm"
            /\ hist' = [hist EXCEPT !.runs = @ + 1, !.prev = Outcome, !.dirs0 = dirs,
                                    !.nstart = rawd, !.proc0 = proc,
                                    !.nreads = {<<NormInputDir, n>> : n \in NormInputs(rawd)}]
            /\ res' = NoRes
    /\ UNCHANGED <<intake, audio, rawd, proc, trans, clock, tts, pool>>

\* the loop of a normalizer that writes its output next to the staged files
NormFileInPlace ==
    /\ pc = "norm"
    /\ \E n \in NextInput(todo) :
          /\ todo' = todo \ {n}
          /\ IF ~rawd[n].data.ok
             THEN /\ cnt' = Logged(cnt, "error", n)
                  /\ audio' = audio
             ELSE IF LongEnough(rawd[n].data)
             THEN /\ audio' = Put(audio, ProcessedName(n),
                                  [data |-> Normalized(rawd[n].data), mtime |-> clock])
                  /\ cnt' = Logged(cnt, "done", n)
             ELSE /\ cnt' = Logged(cnt, "short", n)
                  /\ audio' = audio
    /\ UNCHANGED <<intake, dirs, proc, rawd, trans, clock, pc, res, hist, tts, pool>>

\* one iteration of the loop: load, gate on the decoded length, normalise, write
NormFile ==
    /\ pc = "norm"
    /\ \E n \in NextInput(todo) :
          /\ todo' = todo \ {n}
          /\ IF ~rawd[n].data.ok
             THEN \* librosa.load raises
                  /\ cnt' = Logged(cnt, "error", n)
                  /\ proc' = proc
             ELSE IF LongEnough(rawd[n].data)
             THEN /\ proc' = Put(proc, ProcessedName(n),
                                 [data |-> Normalized(rawd[n].data), mtime |-> clock])
                  /\ cnt' = Logged(cnt, "done", n)
             ELSE /\ cnt' = Logged(cnt, "short", n)
                  /\ proc' = proc
    /\ UNCHANGED <<intake, dirs, audio, rawd, trans, clock, pc, res, hist, tts, pool>>

\* return processed_count, and main's exit code
NormReturn ==
    /\ pc = "norm"
    /\ todo = {}
    /\ pc' = "idle"
    /\ res' = [cmd |-> "norm", ran |-> TRUE, ret |-> cnt.done,
               exit |-> IF cnt.done = 0 THEN 1 ELSE 0, errs |-> cnt.errors]
    /\ hist' = [hist EXCEPT !.pipe = Progress(hist.pipe, "norm")]
    /\ UNCHANGED <<intake, dirs, audio, rawd, proc, trans, clock, todo, cnt, tts, pool>>

-----------------------------------------------------------------------------
(* The transcriber: scripts/transcribe_audio.py *)

\* audio_dir = processed_dir / "audio"
TransInputDir == "audio"

\* audio_files = list(audio_dir.glob('*.wav'))
TransInputs(dir) == {n \in Names(dir) : GlobMatch(n, "wav")}

\* transcript_file = transcripts_dir / f"{audio_file.stem}.json"
TranscriptName(name) == PathStem(name) \o <<Dot, "json">>

FreshWhenPresent(n) == TranscriptName(n) \in Names(trans)

FreshWhenNewer(n) ==
    /\ TranscriptName(n) \in Names(trans)
    /\ trans[TranscriptName(n)].mtime > audio[n].mtime

\* transcript_file.exists() and its st_mtime >= audio_file.stat().st_mtime
Fresh(n) ==
    /\ TranscriptName(n) \in Names(trans)
    /\ trans[TranscriptName(n)].mtime >= audio[n].mtime

\* transcript_data: the source reference and what the model recognised in it
TranscriptData(n) ==
    [file |-> <<"audio/">> \o n, of |-> audio[n].data.id,
     norm |-> audio[n].data.norm]

\* main() up to the call, and transcribe_audio_files up to the loop
TransMain ==
    /\ pc = "idle"
    /\ hist.runs < MaxRuns
    /\ IF "segments" \notin dirs
       THEN /\ res' = [cmd |-> "trans", ran |-> FALSE, ret |-> 0, exit |-> 1, errs |-> 1]
            /\ hist' = [hist EXCEPT !.runs = @ + 1, !.prev = Outcome, !.dirs0 = dirs, !.treads = {},
                                    !.pipe = Progress(hist.pipe, "trans")]
            /\ cnt' = ZeroCnt
            /\ UNCHANGED <<dirs, pc, todo>>
       ELSE IF TransInputDir \notin dirs
       THEN \* return 0, after which main returns 0
            /\ res' = [cmd |-> "trans", ran |-> TRUE, ret |-> 0, exit |-> 0, errs |-> 1]
            /\ hist' = [hist EXCEPT !.runs = @ + 1, !.prev = Outcome, !.dirs0 = dirs, !.treads = {},
                                    !.pipe = Progress(hist.pipe, "trans")]
            /\ cnt' = ZeroCnt
            /\ UNCHANGED <<dirs, pc, todo>>
       ELSE /\ dirs' = dirs \cup {"transcripts"}
            /\ \E loaded \in BOOLEAN :
                  IF loaded
                  THEN /\ todo' = TransInputs(audio)
                       /\ cnt' = [ZeroCnt EXCEPT !.loads = 1]
                       /\ pc' = "trans"
                       /\ hist' = [hist EXCEPT
                             !.runs = @ + 1, !.prev = Outcome, !.dirs0 = dirs,
                             !.astart = audio, !.pnames = DOMAIN hist.astart,
                             !.tstart = trans,
                             !.treads = {<<TransInputDir, n>> : n \in TransInputs(audio)}]
                       /\ res' = NoRes
                  ELSE \* whisper.load_model raises, main logs it and returns 1
                       /\ res' = [cmd |-> "trans", ran |-> TRUE, ret |-> 0,
                                  exit |-> 1, errs |-> 1]
                       /\ cnt' = ZeroCnt
                       /\ hist' = [hist EXCEPT
                             !.runs = @ + 1, !.prev = Outcome, !.dirs0 = dirs,
                             !.astart = audio, !.pnames = DOMAIN hist.astart,
                             !.tstart = trans, !.treads = {},
                             !.pipe = Progress(hist.pipe, "trans")]
                       /\ UNCHANGED <<pc, todo>>
    /\ UNCHANGED <<intake, audio, rawd, proc, trans, clock, tts, pool>>

\* cnt after the loaded model has been given a file
Used(c) == [c EXCEPT !.uses = @ \cup {c.loads}]

\* the loop with the model loaded inside it, once per file to transcribe
TransFileReload ==
    /\ pc = "trans"
    /\ \E n \in todo :
          /\ todo' = todo \ {n}
          /\ IF Fresh(n)
             THEN /\ cnt' = Logged(cnt, "skipped", n)
                  /\ trans' = trans
             ELSE IF ~audio[n].data.ok
             THEN /\ cnt' = Logged(Used([cnt EXCEPT !.loads = @ + 1]), "error", n)
                  /\ trans' = trans
             ELSE /\ trans' = Put(trans, TranscriptName(n),
                                  [data |-> TranscriptData(n), mtime |-> clock])
                  /\ cnt' = Logged(Used([cnt EXCEPT !.loads = @ + 1]), "done", n)
    /\ UNCHANGED <<intake, dirs, audio, rawd, proc, clock, pc, res, hist, tts, pool>>

\* one iteration of the loop: freshness test, recognition, write of the record
TransFile ==
    /\ pc = "trans"
    /\ \E n \in todo :
          /\ todo' = todo \ {n}
          /\ IF Fresh(n)
             THEN /\ cnt' = Logged(cnt, "skipped", n)
                  /\ trans' = trans
             ELSE IF ~audio[n].data.ok
             THEN \* model.transcribe raises
                  /\ cnt' = Logged(Used(cnt), "error", n)
                  /\ trans' = trans
             ELSE /\ trans' = Put(trans, TranscriptName(n),
                                  [data |-> TranscriptData(n), mtime |-> clock])
                  /\ cnt' = Logged(Used(cnt), "done", n)
    /\ UNCHANGED <<intake, dirs, audio, rawd, proc, clock, pc, res, hist, tts, pool>>

\* what open(transcript_file, 'w') leaves when nothing more is written
Partial == [file |-> << >>, of |-> "", norm |-> FALSE]

\* an iteration in which recognition succeeds and the write of the record
\* fails after open() has created the file (the disk is full): the handler
\* logs the error, the empty or cut-off file stays
TransFileWriteFails ==
    /\ pc = "trans"
    /\ \E n \in todo :
          /\ todo' = todo \ {n}
          /\ ~Fresh(n)
          /\ audio[n].data.ok
          /\ trans' = Put(trans, TranscriptName(n), [data |-> Partial, mtime |-> clock])
          /\ cnt' = Logged(Used(cnt), "error", n)
    /\ UNCHANGED <<intake, dirs, audio, rawd, proc, clock, pc, res, hist, tts, pool>>

\* return transcribed_count, and main's return 0
TransReturn ==
    /\ pc = "trans"
    /\ todo = {}
    /\ pc' = "idle"
    /\ res' = [cmd |-> "trans", ran |-> TRUE, ret |-> cnt.done, exit |-> 0,
               errs |-> cnt.errors]
    /\ hist' = [hist EXCEPT !.pipe = Progress(hist.pipe, "trans")]
    /\ UNCHANGED <<intake, dirs, audio, rawd, proc, trans, clock, todo, cnt, tts, pool>>

-----------------------------------------------------------------------------
(* The environment: what a user places in the directories between commands *)

\* decoded lengths on both sides of the duration gate: 1.9 s, 2 s, 2 s + 1, 2.1 s
Lengths == {30400, SampleRate * MinSeconds, SampleRate * MinSeconds + 1, 33600}

\* speech at a steady amplitude of 0.2
Speech == << <<400, 1000>> >>

\* the same recorded at a tenth of the level
Faint == << <<4, 1000>> >>

\* faint speech, amplitude about 0.03, with a few claps at amplitude 0.9
\* that take two thousandths of the recording
Claps == << <<8100, 2>>, <<10, 998>> >>

\* an audio file's content: which recording it is, its decoded length at
\* 16 kHz, whether it decodes, whether the normalizer produced it, and the
\* decoded signal
ClipOf(id, n, sig) ==
    [id |-> id, samples |-> n, ok |-> TRUE, norm |-> FALSE, sig |-> sig]

Clip(id, n) == ClipOf(id, n, Speech)

Corrupt(id) == [id |-> id, samples |-> 0, ok |-> FALSE, norm |-> FALSE, sig |-> <<>>]

Nm(stem, ext) == stem \o <<Dot, ext>>

Raw(dir, name, data, perm) ==
    [dir |-> dir, name |-> name, data |-> data, mtime |-> 0, perm |-> perm]

\* raw files a user may place: folders whose names contain '-', a folder
\* named like the intake root, files directly in the root, nested folders,
\* every recognised extension, a non-audio file and two failing files
RawUniverse ==
    { Raw(<< <<"a">> >>,            Nm(<<"c">>, "wav"),            Clip("A", 33600), "ok"),
      Raw(<< <<"a", Dash, "b">> >>, Nm(<<"c">>, "wav"),            Clip("B", 33600), "ok"),
      Raw(<< <<"a">> >>,            Nm(<<"b", Dash, "c">>, "wav"), Clip("C", 33600), "ok"),
      Raw(<< RootName >>,           Nm(<<"c">>, "wav"),            Clip("D", 33600), "ok"),
      Raw(<< >>,                    Nm(<<"c">>, "wav"),            Clip("E", 33600), "ok"),
      Raw(<< <<"x">>, <<"a">> >>,   Nm(<<"c">>, "wav"),            Clip("F", 33600), "ok"),
      Raw(<< <<"b">> >>,            Nm(<<"c">>, "wav"),            Clip("G", 33600), "ok"),
      Raw(<< <<"a">> >>,            Nm(<<"c">>, "mp3"),            Clip("H", 33600), "ok"),
      Raw(<< <<"a">> >>,            Nm(<<"c">>, "flac"),           Clip("I", 33600), "ok"),
      Raw(<< <<"a">> >>,            Nm(<<"c">>, "txt"),            Clip("J", 33600), "ok"),
      Raw(<< <<"b">> >>,            Nm(<<"d">>, "wav"),            Clip("K", 33600), "noread"),
      Raw(<< <<"b">> >>,            Nm(<<"e">>, "wav"),            Clip("L", 33600), "ioerr") }

\* the raw files of the pipeline model: three clips, a corrupt recording that
\* copies but does not decode, and an unreadable file
PipeUniverse ==
    { Raw(<< <<"a">> >>, Nm(<<"c">>, "wav"), Clip("A", 33600), "ok"),
      Raw(<< <<"a">> >>, Nm(<<"c">>, "mp3"), Clip("H", 33600), "ok"),
      Raw(<< <<"b">> >>, Nm(<<"c">>, "wav"), Clip("G", 33600), "ok"),
      Raw(<< <<"b">> >>, Nm(<<"f">>, "wav"), Corrupt("M"),     "ok"),
      Raw(<< <<"b">> >>, Nm(<<"d">>, "wav"), Clip("K", 33600), "noread") }

\* names of files in the normalizer's input directory
InputNames ==
    { Nm(<<"a", Dash, "c">>, "wav"), Nm(<<"a", Dash, "c">>, "mp3"),
      Nm(<<"a", Dash, "c">>, "flac"), Nm(<<"b">>, "wav"),
      Nm(<<"b">>, "m4a"), Nm(<<"b">>, "ogg") }

InputData == {Clip("A", n) : n \in Lengths} \cup {Corrupt("A")}

\* recordings of 2.1 s that differ in level and in how peaky they are
LoudData == {ClipOf("A", 33600, sig) : sig \in {Speech, Faint, Claps}}

\* names and contents of files in the transcriber's audio directory: a file
\* arrives as a clip or corrupt, and is re-written as any of the three
AudioNames == { Nm(<<"a", Dash, "c">>, "wav"), Nm(<<"b">>, "wav") }

NewAudio == {Clip("A", 33600), Corrupt("C")}

AudioData == NewAudio \cup {Clip("B", 33600)}

\* a user places a file under the intake tree between two commands
PlaceRawFrom(universe) ==
    /\ pc = "idle"
    /\ "intake" \in dirs
    /\ Cardinality(intake) < MaxFiles
    /\ \E f \in universe :
          /\ \A g \in intake : g.dir # f.dir \/ g.name # f.name
          /\ intake' = intake \cup {f}
    /\ UNCHANGED <<dirs, audio, rawd, proc, trans, clock, pc, todo, cnt, res, hist, tts, pool>>

\* a recording after the user has trimmed it
Trimmed(d) == [d EXCEPT !.samples = 30400]

\* a user replaces the content of a raw file between two commands
ModifyRaw ==
    /\ pc = "idle"
    /\ \E f \in intake :
          /\ f.data.ok /\ Trimmed(f.data) # f.data
          /\ intake' = (intake \ {f}) \cup {[f EXCEPT !.data = Trimmed(f.data)]}
    /\ UNCHANGED <<dirs, audio, rawd, proc, trans, clock, pc, todo, cnt, res, hist, tts, pool>>

\* a file appears in <segments_dir>/raw
PlaceInputFrom(names, datas) ==
    /\ pc = "idle"
    /\ NormInputDir \in dirs
    /\ Cardinality(Names(rawd)) < MaxFiles
    /\ \E n \in names \ Names(rawd), d \in datas :
          rawd' = Put(rawd, n, [data |-> d, mtime |-> clock])
    /\ UNCHANGED <<intake, dirs, audio, proc, trans, clock, pc, todo, cnt, res, hist, tts, pool>>

\* a file appears in <segments_dir>/audio
PlaceAudio ==
    /\ pc = "idle"
    /\ TransInputDir \in dirs
    /\ \E n \in AudioNames \ Names(audio), d \in NewAudio :
          audio' = Put(audio, n, [data |-> d, mtime |-> clock])
    /\ UNCHANGED <<intake, dirs, rawd, proc, trans, clock, pc, todo, cnt, res, hist, tts, pool>>

\* an audio file is written again, with other content and the current time
RewriteAudio ==
    /\ pc = "idle"
    /\ \E n \in Names(audio), d \in AudioData :
          /\ d # audio[n].data
          /\ audio' = [audio EXCEPT ![n] = [data |-> d, mtime |-> clock]]
    /\ UNCHANGED <<intake, dirs, rawd, proc, trans, clock, pc, todo, cnt, res, hist, tts, pool>>

\* time passes
Tick ==
    /\ pc = "idle"
    /\ clock < MaxClock
    /\ clock' = clock + 1
    /\ UNCHANGED <<intake, dirs, audio, rawd, proc, trans, pc, todo, cnt, res, hist, tts, pool>>

-----------------------------------------------------------------------------
(* The speech engines (src/tts) and the web handler (src/ui/app.py).       *)
(* An engine object is a record on a heap, tts.engines, and a reference    *)
(* to it is its index; 0 is the None reference.  Strings that the code     *)
(* searches or strips are sequences of tokens.                             *)

MaxCalls == 4
MaxRequests == 2

\* Python's None for a path-valued attribute or result
None == << >>

NoEngine == 0

\* the choices of the model selector, and a string that names neither engine
ModelChoices ==
    { <<"XTTS", " v2 (Fast)">>, <<"Tortoise", "-TTS (High Quality)">>,
      <<"Bark">> }

\* `"XTTS" in model_choice`
Contains(s, tok) == \E i \in DOMAIN s : s[i] = tok

\* text inputs: empty (or None), only white space, and a sentence
Texts == { << >>, <<" ">>, <<" ", "h", "i">> }

RECURSIVE LStrip(_)
LStrip(t) == IF t # << >> /\ Head(t) = " " THEN LStrip(Tail(t)) ELSE t

RECURSIVE RStrip(_)
RStrip(t) ==
    IF t # << >> /\ t[Len(t)] = " " THEN RStrip(SubSeq(t, 1, Len(t) - 1)) ELSE t

\* text.strip()
Strip(t) == RStrip(LStrip(t))

\* `not text or text.strip() == ""`
Blank(text) == text = << >> \/ Strip(text) = << >>

\* the program state of the speech process: the engine cache, the engine
\* objects and the number of invocations of the synthesis model; built, the
\* engines on which build_speaker_embedding has returned, is an observation
NoMachine ==
    [engine_cache |-> [xtts |-> NoEngine, tortoise |-> NoEngine],
     engines |-> << >>, synth |-> 0, built |-> {}]

\* the state of an engine object after its constructor
NewEngine(kind) ==
    [kind |-> kind, speaker_embedding |-> None, reference_audio |-> None]

\* the result of a call: the program state after it, the exception it raised
\* ("none" if it returned) and its return value
Returned(m, value) == [m |-> m, raised |-> "none", ret |-> value]

Raised(m, exc) == [m |-> m, raised |-> exc, ret |-> None]

\* get_engine that constructs on every call
GetEngineFresh(m, model_choice, loads) ==
    LET engine_type == IF Contains(model_choice, "XTTS") THEN "xtts" ELSE "tortoise"
        made == [m EXCEPT !.engines = Append(@, NewEngine(engine_type)),
                          !.engine_cache[engine_type] = Len(m.engines) + 1]
    IN  IF loads THEN Returned(made, made.engine_cache[engine_type])
        ELSE Raised(m, "RuntimeError")

\* get_engine(model_choice); loads says whether a constructor, if called,
\* succeeds
GetEngine(m, model_choice, loads) ==
    LET engine_type == IF Contains(model_choice, "XTTS") THEN "xtts" ELSE "tortoise"
        made == [m EXCEPT !.engines = Append(@, NewEngine(engine_type)),
                          !.engine_cache[engine_type] = Len(m.engines) + 1]
    IN  IF m.engine_cache[engine_type] = NoEngine
        THEN IF loads THEN Returned(made, made.engine_cache[engine_type])
             ELSE Raised(m, "RuntimeError")
        ELSE Returned(m, m.engine_cache[engine_type])

\* the clips whose file exists: `Path(clip).exists()`
ValidClips(reference_clips, files) ==
    SelectSeq(reference_clips, LAMBDA clip : clip \in files)

\* XTTSInferenceEngine.build_speaker_embedding on engine e
XTTSBuild(m, e, reference_clips, min_clips, files) ==
    LET valid_clips == ValidClips(reference_clips, files) IN
    IF Len(reference_clips) < min_clips THEN Raised(m, "ValueError")
    ELSE IF Len(valid_clips) < min_clips THEN Raised(m, "ValueError")
    ELSE IF valid_clips = << >> THEN Raised(m, "IndexError")
    ELSE Returned([m EXCEPT !.engines[e].reference_audio = valid_clips[1],
                            !.engines[e].speaker_embedding = valid_clips[1],
                            !.built = @ \cup {e}],
                  valid_clips[1])

\* TortoiseInferenceEngine.build_speaker_embedding
TortoiseBuild(m, e, reference_clips, min_clips, files) ==
    IF Len(reference_clips) < min_clips THEN Raised(m, "ValueError")
    ELSE Raised(m, "NotImplementedError")

\* engine.build_speaker_embedding, dispatched on the engine's class
Build(m, e, reference_clips, min_clips, files) ==
    IF m.engines[e].kind = "xtts"
    THEN XTTSBuild(m, e, reference_clips, min_clips, files)
    ELSE TortoiseBuild(m, e, reference_clips, min_clips, files)

\* what the synthesis can do once it is reached: the temporary file cannot
\* be made, the model (or reading its output) fails, or audio comes back
SynthOutcomes == {"notemp", "fails", "ok"}

\* the audio the model produces: the text in the voice of the reference clip
Audio(voice, text) == [voice |-> voice, text |-> text]

\* generate_speech without the speaker-embedding check
XTTSGenerateUnchecked(m, e, text, outcome) ==
    LET invoked == [m EXCEPT !.synth = @ + 1] IN
    IF Blank(text) THEN Raised(m, "ValueError")
    ELSE IF outcome = "notemp" THEN Raised(m, "RuntimeError")
    ELSE IF outcome = "fails" THEN Raised(invoked, "RuntimeError")
    ELSE Returned(invoked, Audio(m.engines[e].reference_audio, text))

\* XTTSInferenceEngine.generate_speech on engine e
XTTSGenerate(m, e, text, outcome) ==
    LET invoked == [m EXCEPT !.synth = @ + 1] IN
    IF m.engines[e].speaker_embedding = None THEN Raised(m, "ValueError")
    ELSE IF Blank(text) THEN Raised(m, "ValueError")
    ELSE IF outcome = "notemp" THEN Raised(m, "RuntimeError")
    ELSE IF outcome = "fails" THEN Raised(invoked, "RuntimeError")
    ELSE Returned(invoked, Audio(m.engines[e].reference_audio, text))

\* TortoiseInferenceEngine.generate_speech
TortoiseGenerate(m, e, text, outcome) == Raised(m, "NotImplementedError")

\* engine.generate_speech, dispatched on the engine's class
Generate(m, e, text, outcome) ==
    IF m.engines[e].kind = "xtts" THEN XTTSGenerate(m, e, text, outcome)
    ELSE TortoiseGenerate(m, e, text, outcome)

\* subclasses of Exception that the calls above can raise
Exceptions ==
    {"ValueError", "RuntimeError", "IndexError", "NotImplementedError", "OSError"}

\* the seed field: an accepted seed, and one that numpy rejects
Seeds == {"valid", "negative"}

\* the reference-folder field: empty, a missing folder, the folder of clips
Folders == {"", "missing", "ref"}

\* the files that may lie in the reference folder
RefUniverse == { Nm(<<"r">>, "wav"), Nm(<<"s">>, "wav"), Nm(<<"n">>, "txt") }

\* the sequences that list the members of a set of at most two names
Listings(S) ==
    {l \in {<< >>} \cup {<<a>> : a \in S} \cup {<<a, b>> : a \in S, b \in S} :
        Len(l) = Cardinality(S) /\ \A x \in S : \E i \in DOMAIN l : l[i] = x}

\* `list(ref_path.glob("*.wav"))`
WavFiles(files) == {f \in files : GlobMatch(f, "wav")}

\* the first step of a request that the environment lets fail, if any: the
\* engine constructor, the synthesis (as in SynthOutcomes), the saving
Fates == {"noload", "notemp", "fails", "nosave", "ok"}

\* what the environment decides during one handler call: the order of the
\* directory listing, and what fails
Environments(files) == [listing : Listings(WavFiles(files)), fate : Fates]

\* the handler's return value
Pair(audio_path, status) == [audio_path |-> audio_path, status |-> status]

\* the body of the handler's try statement
UIBody(m, files, text, ref_folder, model_choice, seed, env) ==
    LET audio_files == env.listing
        got == GetEngine(m, model_choice, env.fate # "noload")
        built == Build(got.m, got.ret, audio_files, 1, files)
        spoken == Generate(built.m, got.ret, text,
                           IF env.fate \in SynthOutcomes THEN env.fate ELSE "ok")
    IN  IF Blank(text) THEN Returned(m, Pair(None, "no_text"))
        ELSE IF ref_folder = "" THEN Returned(m, Pair(None, "no_folder"))
        ELSE IF ref_folder # "ref" THEN Returned(m, Pair(None, "folder_not_found"))
        ELSE IF Len(audio_files) = 0 THEN Returned(m, Pair(None, "no_wav"))
        ELSE IF seed = "negative" THEN Raised(m, "ValueError")
        ELSE IF Contains(model_choice, "Tortoise")
             THEN Returned(m, Pair(None, "tortoise"))
        ELSE IF got.raised # "none" THEN Raised(got.m, got.raised)
        ELSE IF built.raised # "none" THEN Raised(built.m, built.raised)
        ELSE IF spoken.raised # "none" THEN Raised(spoken.m, spoken.raised)
        ELSE IF env.fate = "nosave" THEN Raised(spoken.m, "OSError")
        ELSE Returned(spoken.m, Pair(<<"tmp", Dot, "wav">>, "complete"))

\* the handler with except clauses for the engines' documented errors only
UIGenerateNarrow(m, files, text, ref_folder, model_choice, seed, env) ==
    LET body == UIBody(m, files, text, ref_folder, model_choice, seed, env) IN
    IF body.raised = "none" THEN body
    ELSE IF body.raised = "NotImplementedError"
         THEN Returned(body.m, Pair(None, "not_implemented"))
    ELSE IF body.raised \in {"ValueError", "RuntimeError"}
         THEN Returned(body.m, Pair(None, "error"))
    ELSE body

\* generate_speech of the web handler: the body under its except clauses
UIGenerate(m, files, text, ref_folder, model_choice, seed, env) ==
    LET body == UIBody(m, files, text, ref_folder, model_choice, seed, env) IN
    IF body.raised = "none" THEN body
    ELSE IF body.raised = "NotImplementedError"
         THEN Returned(body.m, Pair(None, "not_implemented"))
    ELSE IF body.raised \in Exceptions
         THEN Returned(body.m, Pair(None, "error"))
    ELSE body

\* the speech process before its first call
NoCall ==
    [op |-> "none", choice |-> << >>, engine |-> NoEngine, args |-> << >>,
     raised |-> "none", ret |-> None, before |-> NoMachine]

NoTTS == [m |-> NoMachine, files |-> {}, calls |-> 0, last |-> NoCall]

\* what a call leaves for the properties to read: the operation, its
\* arguments, the exception it raised, its return value, the state before
Call(op, choice, e, args, r) ==
    [op |-> op, choice |-> choice, engine |-> e, args |-> args,
     raised |-> r.raised, ret |-> r.ret, before |-> tts.m]

\* a call of get_engine
CallGetEngine ==
    /\ tts.calls < MaxCalls
    /\ \E model_choice \in ModelChoices, loads \in BOOLEAN :
          LET r == GetEngine(tts.m, model_choice, loads) IN
          tts' = [tts EXCEPT !.m = r.m, !.calls = @ + 1,
                      !.last = Call("get_engine", model_choice,
                                    IF r.raised = "none" THEN r.ret ELSE NoEngine,
                                    [loads |-> loads], r)]
    /\ UNCHANGED <<intake, dirs, audio, rawd, proc, trans, clock, pc, todo, cnt, res, hist, pool>>

\* clip lists a caller may pass: in any order, with files that do not exist
ClipLists == {<< >>} \cup {<<a>> : a \in RefUniverse}
             \cup {<<a, b>> : a \in RefUniverse, b \in RefUniverse}

\* a call of build_speaker_embedding on an XTTS engine
CallBuild ==
    /\ tts.calls < MaxCalls
    /\ \E e \in DOMAIN tts.m.engines, reference_clips \in ClipLists,
          min_clips \in 0..2 :
          /\ tts.m.engines[e].kind = "xtts"
          /\ LET r == XTTSBuild(tts.m, e, reference_clips, min_clips, tts.files) IN
             tts' = [tts EXCEPT !.m = r.m, !.calls = @ + 1,
                         !.last = Call("build_speaker_embedding", << >>, e,
                                       [reference_clips |-> reference_clips,
                                        min_clips |-> min_clips], r)]
    /\ UNCHANGED <<intake, dirs, audio, rawd, proc, trans, clock, pc, todo, cnt, res, hist, pool>>

\* a call of generate_speech on an XTTS engine
CallGenerate ==
    /\ tts.calls < MaxCalls
    /\ \E e \in DOMAIN tts.m.engines, text \in Texts, outcome \in SynthOutcomes :
          /\ tts.m.engines[e].kind = "xtts"
          /\ LET r == XTTSGenerate(tts.m, e, text, outcome) IN
             tts' = [tts EXCEPT !.m = r.m, !.calls = @ + 1,
                         !.last = Call("generate_speech", << >>, e,
                                       [text |-> text, outcome |-> outcome], r)]
    /\ UNCHANGED <<intake, dirs, audio, rawd, proc, trans, clock, pc, todo, cnt, res, hist, pool>>

\* a request to the web handler
CallUI ==
    /\ tts.calls < MaxRequests
    /\ \E text \in Texts, ref_folder \in Folders, model_choice \in ModelChoices,
          seed \in Seeds, env \in Environments(tts.files) :
          LET r == UIGenerate(tts.m, tts.files, text, ref_folder, model_choice,
                              seed, env) IN
          tts' = [tts EXCEPT !.m = r.m, !.calls = @ + 1,
                      !.last = Call("ui", model_choice, NoEngine,
                                    [text |-> text, ref_folder |-> ref_folder,
                                     seed |-> seed, found |-> Len(env.listing),
                                     fate |-> env.fate], r)]
    /\ UNCHANGED <<intake, dirs, audio, rawd, proc, trans, clock, pc, todo, cnt, res, hist, pool>>

\* a file appears in the reference folder
PlaceClip ==
    /\ \E f \in RefUniverse \ tts.files : tts' = [tts EXCEPT !.files = @ \cup {f}]
    /\ UNCHANGED <<intake, dirs, audio, rawd, proc, trans, clock, pc, todo, cnt, res, hist, pool>>

\* a file of the reference folder is deleted
RemoveClip ==
    /\ \E f \in tts.files : tts' = [tts EXCEPT !.files = @ \ {f}]
    /\ UNCHANGED <<intake, dirs, audio, rawd, proc, trans, clock, pc, todo, cnt, res, hist, pool>>

Quiet ==
    /\ intake = {}
    /\ audio = NoFiles /\ rawd = NoFiles /\ proc = NoFiles /\ trans = NoFiles
    /\ clock = 0
    /\ pc = "idle"
    /\ todo = {}
    /\ cnt = ZeroCnt
    /\ res = NoRes
    /\ hist = NoHist
    /\ tts = NoTTS
    /\ pool = {}

-----------------------------------------------------------------------------
(* The speech engines alone: calls on the cache and on the engines, while  *)
(* reference clips come and go                                             *)

InitSpeech == Quiet /\ dirs = {}

NextSpeech ==
    PlaceClip \/ RemoveClip \/ CallGetEngine \/ CallBuild \/ CallGenerate

SpecSpeech == InitSpeech /\ [][NextSpeech]_vars

-----------------------------------------------------------------------------
(* The web handler alone: requests, while reference clips arrive *)

NextUI == PlaceClip \/ CallUI

SpecUI == InitSpeech /\ [][NextUI]_vars

-----------------------------------------------------------------------------
(* Ingestion alone, over the rich intake trees *)

PlaceRaw == PlaceRawFrom(RawUniverse)

InitIngest == Quiet /\ dirs = {"intake"}

NextIngest == PlaceRaw \/ IngestMain \/ IngestFile \/ IngestReturn

SpecIngest == InitIngest /\ [][NextIngest]_vars

-----------------------------------------------------------------------------
(* Ingestion over an intake tree whose files the user also edits *)

PlaceEdited == PlaceRawFrom(PipeUniverse)

NextRestage == PlaceEdited \/ ModifyRaw \/ IngestMain \/ IngestFile \/ IngestReturn

SpecRestage == InitIngest /\ [][NextRestage]_vars

-----------------------------------------------------------------------------
(* Ingestion with its copy loop run by a pool of workers *)

\* clips in folders of which two share the name of the innermost folder
PoolUniverse ==
    { Raw(<< <<"a">> >>,          Nm(<<"c">>, "wav"), Clip("A", 33600), "ok"),
      Raw(<< <<"x">>, <<"a">> >>, Nm(<<"c">>, "wav"), Clip("F", 33600), "ok"),
      Raw(<< <<"b">> >>,          Nm(<<"c">>, "wav"), Clip("G", 33600), "ok") }

PlacePoolRaw == PlaceRawFrom(PoolUniverse)

NextPool == PlacePoolRaw \/ IngestMain \/ PoolCheck \/ PoolCopy \/ PoolReturn

SpecPool == InitIngest /\ [][NextPool]_vars

-----------------------------------------------------------------------------
(* Ingestion of readable files, with interrupts *)

NextInterrupt == PlacePoolRaw \/ IngestMain \/ IngestFile \/ IngestReturn \/ Interrupt

SpecInterrupt == InitIngest /\ [][NextInterrupt]_vars

-----------------------------------------------------------------------------
(* Ingestion with the output directory inside the intake root *)

NextNested == PlacePoolRaw \/ IngestMainNested \/ IngestFile \/ IngestReturn

SpecNested == InitIngest /\ [][NextNested]_vars

-----------------------------------------------------------------------------
(* The normalizer alone *)

PlaceInput == PlaceInputFrom(InputNames, InputData)

InitNorm == Quiet /\ dirs = {"segments", "raw"}

NextNorm == PlaceInput \/ NormMain \/ NormFile \/ NormReturn

SpecNorm == InitNorm /\ [][NextNorm]_vars

-----------------------------------------------------------------------------
(* The normalizer over recordings of different loudness *)

PlaceLoud == PlaceInputFrom(InputNames, LoudData)

NextLoud == PlaceLoud \/ NormMain \/ NormFile \/ NormReturn

SpecLoud == InitNorm /\ [][NextLoud]_vars

-----------------------------------------------------------------------------
(* The transcriber alone, with a clock *)

InitTrans == Quiet /\ dirs = {"segments", "audio"}

NextTrans == PlaceAudio \/ RewriteAudio \/ Tick \/ TransMain \/ TransFile \/ TransReturn

SpecTrans == InitTrans /\ [][NextTrans]_vars

-----------------------------------------------------------------------------
(* The transcriber run again and again while audio files are only added *)

NextRerun == PlaceAudio \/ Tick \/ TransMain \/ TransFile \/ TransReturn

SpecRerun == InitTrans /\ [][NextRerun]_vars

-----------------------------------------------------------------------------
(* The transcriber run again and again on a disk that can fill up *)

NextWriteFault ==
    PlaceAudio \/ Tick \/ TransMain \/ TransFile \/ TransFileWriteFails \/ TransReturn

SpecWriteFault == InitTrans /\ [][NextWriteFault]_vars

-----------------------------------------------------------------------------
(* The three commands over one processed root *)

\* in the pipeline model the user fills the directories before the first
\* command and then runs commands
Preparing == hist.runs = 0

PlacePipeRaw == Preparing /\ PlaceRawFrom(PipeUniverse)

PlacePipeInput ==
    /\ Preparing
    /\ \/ PlaceInputFrom({Nm(<<"a", Dash, "c">>, "wav"), Nm(<<"b">>, "mp3")},
                         {Clip("A", 33600)})
       \/ PlaceInputFrom({Nm(<<"b">>, "wav")}, {Corrupt("B")})

\* the directories that may exist before the first command
StartDirs ==
    {S \in SUBSET {"intake", "segments", "raw", "audio"} :
        ("raw" \in S \/ "audio" \in S) => "segments" \in S}

Init == Quiet /\ dirs \in StartDirs

Next ==
    \/ PlacePipeRaw \/ PlacePipeInput
    \/ IngestMain \/ IngestFile \/ IngestReturn
    \/ NormMain \/ NormFile \/ NormReturn
    \/ TransMain \/ TransFile \/ TransReturn

Spec == Init /\ [][Next]_vars

-----------------------------------------------------------------------------
(* Properties of ingestion, checked under SpecIngest *)

\* an ingestion run has just returned to main
IngestReturned == pc = "idle" /\ res.cmd = "ingest" /\ res.ran

\* C1: when ingestion runs twice in a row over an unchanged intake tree, the
\* second run returns 0 and leaves the set of staged files as the first run
\* left it.
IdempotentIngestion ==
    (IngestReturned /\ hist.ingests >= 2 /\ hist.start = hist.pstart)
        => (res.ret = 0 /\ hist.end = hist.pend)

\* a second run over an unchanged tree that holds two staged files and a
\* file whose copy fails
IdempotentIngestionWitness ==
    /\ IngestReturned /\ hist.ingests >= 2 /\ hist.start = hist.pstart
    /\ Cardinality(hist.pend) >= 2
    /\ res.errs >= 1

\* the provenance tag of the data model: the immediate parent folder's name,
\* the sentinel for a file directly in the intake root
ProvenanceTag(f) == IF f.dir = <<>> THEN Unknown ELSE f.dir[Len(f.dir)]

\* C5: a readable raw audio file named f in a subfolder named t is staged
\* under exactly the name t-f, whatever else is in the tree.
DeterministicNaming ==
    IngestReturned =>
        \A f \in hist.start :
            (f.dir # <<>> /\ ExtRank(f.name) > 0 /\ f.perm = "ok")
                => (f.dir[Len(f.dir)] \o <<Dash>> \o f.name) \in Names(audio)

\* C6: two distinct raw audio files that differ in provenance tag or in
\* filename get different staged names, so in a first run over a tree of such
\* files (none in a folder named like the intake root) no file is skipped as
\* already existing.
CollisionResistance ==
    ( /\ IngestReturned /\ hist.ingests = 1
      /\ \A f \in hist.start : ProvenanceTag(f) # RootName
      /\ \A f, g \in hist.start :
            f # g => (ProvenanceTag(f) # ProvenanceTag(g) \/ f.name # g.name) )
        => cnt.skipped = 0

-----------------------------------------------------------------------------
(* Properties of the transcriber, checked under SpecTrans *)

\* a transcriber run that passed the directory check and loaded the model
\* has just returned
TransReturned ==
    /\ pc = "idle" /\ res.cmd = "trans" /\ res.ran
    /\ TransInputDir \in hist.dirs0
    /\ cnt.loads >= 1

\* the name without its last two tokens, the dot and the extension
StemOf(n) == SubSeq(n, 1, Len(n) - 2)

\* the .wav files of the audio directory as the last run found it
WavAtStart == {n \in DOMAIN hist.astart : PathSuffix(n) = <<Dot, "wav">>}

RecordOf(n) == StemOf(n) \o <<Dot, "json">>

\* the record of n was missing, or strictly older than n, when the run began
StaleAtStart(n) ==
    \/ RecordOf(n) \notin DOMAIN hist.tstart
    \/ hist.tstart[RecordOf(n)].mtime < hist.astart[n].mtime

\* the last run gave n to the recognition model
Attempted(n) == <<"done", n>> \in cnt.log \/ <<"error", n>> \in cnt.log

\* C2: a run transcribes an audio file iff its record is missing or strictly
\* older than the audio; a record at least as new as its audio is left
\* unchanged; a stale record of audio that the model can recognise is
\* regenerated from the audio as it now is.
TranscriptionFreshness ==
    TransReturned =>
        \A n \in WavAtStart :
            /\ Attempted(n) <=> StaleAtStart(n)
            /\ ~StaleAtStart(n) => trans[RecordOf(n)] = hist.tstart[RecordOf(n)]
            /\ (StaleAtStart(n) /\ hist.astart[n].data.ok) =>
                  /\ RecordOf(n) \in Names(trans)
                  /\ trans[RecordOf(n)].data.of = hist.astart[n].data.id
                  /\ trans[RecordOf(n)].mtime >= hist.astart[n].mtime

\* one run that keeps a record exactly as old as its audio and regenerates
\* the record of an audio file re-written since
TranscriptionFreshnessWitness ==
    /\ TransReturned
    /\ \E n \in WavAtStart :
          /\ ~StaleAtStart(n)
          /\ hist.tstart[RecordOf(n)].mtime = hist.astart[n].mtime
    /\ \E n \in WavAtStart :
          /\ RecordOf(n) \in DOMAIN hist.tstart
          /\ StaleAtStart(n)
          /\ trans[RecordOf(n)].data.of # hist.tstart[RecordOf(n)].data.of

-----------------------------------------------------------------------------
(* Properties of the normalizer, checked under SpecNorm *)

\* a normalizer run that passed the directory checks has just returned
NormReturned ==
    pc = "idle" /\ res.cmd = "norm" /\ res.ran /\ NormInputDir \in hist.dirs0

\* the files of the input directory as the last run found it that decode
Decodable == {n \in DOMAIN hist.nstart : hist.nstart[n].data.ok}

Samples(n) == hist.nstart[n].data.samples

\* the inputs of the last run that share n's output path
SameOutput(n) == {m \in DOMAIN hist.nstart : ProcessedName(m) = ProcessedName(n)}

\* C7: a decoded file of at most 32000 samples is rejected, with no file
\* written for it, no count and no error; one of more than 32000 samples is
\* accepted and yields a normalized file; 30400 is rejected, 33600 accepted.
DurationGate ==
    NormReturned =>
        /\ \A n \in Decodable \cap NormInputs(hist.nstart) :
              /\ Samples(n) <= 32000 =>
                    /\ <<"short", n>> \in cnt.log
                    /\ <<"done", n>> \notin cnt.log
                    /\ <<"error", n>> \notin cnt.log
              /\ Samples(n) > 32000 =>
                    /\ <<"done", n>> \in cnt.log
                    /\ ProcessedName(n) \in Names(proc)
              /\ (\A m \in SameOutput(n) : m \in Decodable => Samples(m) <= 32000) =>
                    /\ ProcessedName(n) \in Names(proc)
                          <=> ProcessedName(n) \in DOMAIN hist.proc0
                    /\ ProcessedName(n) \in Names(proc)
                          => proc[ProcessedName(n)] = hist.proc0[ProcessedName(n)]
        /\ res.ret = Cardinality({n \in Decodable \cap NormInputs(hist.nstart) :
                                      Samples(n) > 32000})
        /\ res.errs = Cardinality(NormInputs(hist.nstart) \ Decodable)

\* a run over a clip of 1.9 s, rejected, and a clip of 2.1 s, accepted
DurationGateWitness ==
    /\ NormReturned
    /\ \E n \in Decodable : Samples(n) = 30400 /\ <<"short", n>> \in cnt.log
    /\ \E n \in Decodable : Samples(n) = 33600 /\ <<"done", n>> \in cnt.log

\* C9: every file of the input directory with one of the five extensions
\* ingestion recognises that decodes and exceeds the threshold yields a
\* normalized file in the run.
NormalizerCoverage ==
    NormReturned =>
        \A n \in Decodable :
            (ExtRank(n) > 0 /\ Samples(n) > 32000)
                => (<<"done", n>> \in cnt.log /\ ProcessedName(n) \in Names(proc))

-----------------------------------------------------------------------------
(* Properties of the three commands together, checked under Spec *)

\* the raw audio files of the last ingestion run, those whose copy succeeds
\* and those whose copy raises
Found ==
    {f \in hist.start :
        PathSuffix(f.name) \in {<<Dot, e>> : e \in {"wav", "mp3", "flac", "m4a", "ogg"}}}

Copyable == {f \in Found : f.perm = "ok"}

\* the .wav files the last transcriber run had to transcribe
Due == {n \in WavAtStart : StaleAtStart(n)}

\* C3: in each stage, a batch of valid files with distinct outputs plus one
\* file whose processing raises leaves every valid file with its output, one
\* error logged, and the count of valid files returned.
FailureIsolation ==
    /\ ( /\ IngestReturned
         /\ Cardinality(Found \ Copyable) = 1
         /\ \A f, g \in Found : f # g => StagedName(f) # StagedName(g)
         /\ \A f \in Found : StagedName(f) \notin hist.pend )
       => /\ res.ret = Cardinality(Copyable)
          /\ res.errs = 1
          /\ \A f \in Copyable :
                /\ StagedName(f) \in Names(audio)
                /\ audio[StagedName(f)].data = f.data
    /\ ( /\ NormReturned
         /\ Cardinality(NormInputs(hist.nstart) \ Decodable) = 1
         /\ \A n \in Decodable : Samples(n) > 32000 )
       => /\ res.ret = Cardinality(Decodable \cap NormInputs(hist.nstart))
          /\ res.errs = 1
          /\ \A n \in Decodable \cap NormInputs(hist.nstart) :
                /\ ProcessedName(n) \in Names(proc)
                /\ \E m \in SameOutput(n) \cap Decodable :
                      proc[ProcessedName(n)].data.id = hist.nstart[m].data.id
    /\ ( /\ TransReturned
         /\ Cardinality({n \in Due : ~hist.astart[n].data.ok}) = 1 )
       => /\ res.ret = Cardinality({n \in Due : hist.astart[n].data.ok})
          /\ res.errs = 1
          /\ \A n \in Due : hist.astart[n].data.ok =>
                /\ RecordOf(n) \in Names(trans)
                /\ trans[RecordOf(n)].data.of = hist.astart[n].data.id

\* the three stages have each handled a batch with one failing file and at
\* least one valid file, the transcriber last
FailureIsolationWitness ==
    /\ TransReturned
    /\ Cardinality({n \in Due : ~hist.astart[n].data.ok}) = 1
    /\ res.ret >= 1
    /\ Cardinality(NormInputs(hist.nstart) \ Decodable) = 1
    /\ \E n \in Decodable \cap NormInputs(hist.nstart) : ProcessedName(n) \in Names(proc)
    /\ hist.ingests >= 1
    /\ Cardinality(Found \ Copyable) = 1
    /\ Cardinality(Copyable) >= 1

\* C4: after ingestion has staged files and the normalizer and the
\* transcriber have then run, in that order over one processed root, every
\* staged file was an input of the normalizer and every normalized file was
\* an input of the transcriber.
PipelineWiring ==
    (pc = "idle" /\ hist.pipe = 3 /\ hist.end # {}) =>
        /\ \A n \in hist.end : <<IngestOutputDir, n>> \in hist.nreads
        /\ \A n \in Names(proc) : <<NormOutputDir, n>> \in hist.treads

MissingOutcome ==
    /\ res.exit # 0
    /\ res.errs >= 1
    /\ dirs = hist.dirs0
    /\ cnt.loads = 0
    /\ cnt.log = {}

\* C10: a command whose input directory does not exist reports an error,
\* exits non-zero, creates no directory and does not load the model.
MissingInputFatal ==
    pc = "idle" =>
        /\ (res.cmd = "ingest" /\ "intake" \notin hist.dirs0) => MissingOutcome
        /\ (res.cmd = "norm" /\ "raw" \notin hist.dirs0) => MissingOutcome
        /\ (res.cmd = "trans" /\ "audio" \notin hist.dirs0) => MissingOutcome

-----------------------------------------------------------------------------
(* Exit codes, checked under Spec *)

\* a command has ended after its stage function went through its file list
StageEnded == pc = "idle" /\ Passed

\* C11: a command whose input directory exists, that logs no error and
\* produces no new file (nothing found, everything skipped, every clip too
\* short) exits with code 0, which sets it apart from a hard error.
NothingToDoSucceeds ==
    (StageEnded /\ cnt.errors = 0 /\ cnt.done = 0) => res.exit = 0

\* C12: a command that found at least one file and saw every file end in an
\* error exits non-zero; one that saw a file succeed and another fail exits 0.
TotalFailureNonZero ==
    /\ ( /\ StageEnded
         /\ cnt.errors >= 1
         /\ cnt.done = 0 /\ cnt.skipped = 0 /\ cnt.short = 0 ) => res.exit # 0
    /\ (StageEnded /\ cnt.errors >= 1 /\ cnt.done >= 1) => res.exit = 0

-----------------------------------------------------------------------------
(* What a stage function returns, checked under SpecIngest *)

\* the last two commands were runs of the same stage function that both went
\* through their file lists
SameStageTwice ==
    /\ StageEnded
    /\ hist.prev.passed
    /\ hist.prev.cmd = res.cmd

\* C13: the value a stage function returns tells its caller how many files
\* errored and how many were skipped, as existing or as too short: two runs
\* of a stage that return the same value logged the same numbers of each.
BatchSummary ==
    (SameStageTwice /\ hist.prev.ret = res.ret) =>
        /\ hist.prev.errs = res.errs
        /\ hist.prev.skipped = cnt.skipped
        /\ hist.prev.short = cnt.short

\* C14: ingestion returns the number of files that are in the staging
\* directory after the run and were not there before it; skipped files and
\* failed copies are not counted, and a run returning 0 without errors exits 0.
ReturnCountsNewFiles ==
    IngestReturned =>
        /\ res.ret = Cardinality(Names(audio) \ hist.pend)
        /\ (res.ret = 0 /\ res.errs = 0) => res.exit = 0

\* C15: the tag in the staged name of a discovered raw file is the name of
\* the file's immediate parent folder, and it is the sentinel 'unknown'
\* exactly when the file sits directly in the intake root; this includes
\* files in a nested folder named like the intake root.
TagDerivation ==
    IngestReturned =>
        \A f \in Found :
            /\ Tag(f) = ProvenanceTag(f)
            /\ Tag(f) = Unknown <=> f.dir = <<>>
            /\ <<"done", f>> \in cnt.log =>
                  (ProvenanceTag(f) \o <<Dash>> \o f.name) \in Names(audio)

-----------------------------------------------------------------------------
(* Staged files under edits of the intake tree, checked under SpecRestage *)

\* every staged file is still there, with the content and times it had
StagedKept == \A n \in Names(audio) : n \in Names(audio') /\ audio'[n] = audio[n]

\* the raw files of the last run whose destination existed when it began
AlreadyStaged == {f \in Found : StagedName(f) \in hist.pend}

\* C16: while ingestion runs alternate with additions to and edits of raw
\* files, no step changes or removes a staged file, and a run skips every raw
\* file whose destination already exists, without copying it and without
\* logging an error for it.
NeverOverwritten ==
    /\ [][StagedKept]_vars
    /\ [](IngestReturned =>
            \A f \in AlreadyStaged :
                /\ <<"skipped", f>> \in cnt.log
                /\ <<"done", f>> \notin cnt.log
                /\ <<"error", f>> \notin cnt.log)

\* a run has skipped a raw file that was edited after it had been staged
NeverOverwrittenWitness ==
    /\ IngestReturned
    /\ \E f \in AlreadyStaged :
          /\ <<"skipped", f>> \in cnt.log
          /\ audio[StagedName(f)].data.id = f.data.id
          /\ audio[StagedName(f)].data # f.data

-----------------------------------------------------------------------------
(* Repeated transcriber runs, checked under SpecRerun *)

\* the last run came right after a transcriber run that transcribed or
\* skipped every file, and every audio file of that run is still there
AfterCleanRun ==
    /\ TransReturned
    /\ hist.prev.cmd = "trans" /\ hist.prev.passed /\ hist.prev.errs = 0
    /\ hist.pnames \subseteq DOMAIN hist.astart

\* the .wav files added to the audio directory since the run before
AddedWav == WavAtStart \ hist.pnames

TransEnded ==
    pc = "idle" /\ res.cmd = "trans" /\ res.ran /\ TransInputDir \in hist.dirs0

\* C18: a transcriber run that finds its audio directory has loaded exactly
\* one model whenever its loop is running, from before the first file on, and
\* gives every file to that model, whatever the number of files; when the
\* load fails the command exits non-zero and no transcript is written.
ModelLoadedOnce ==
    /\ pc = "trans" => cnt.loads = 1
    /\ TransEnded =>
          IF cnt.loads = 0
          THEN res.exit # 0 /\ trans = hist.tstart /\ cnt.log = {}
          ELSE cnt.loads = 1 /\ cnt.uses \subseteq {1}

\* a run that transcribed two files with its one model, right after a
\* command whose model load failed
ModelLoadedOnceWitness ==
    /\ TransEnded
    /\ cnt.loads = 1 /\ cnt.uses = {1} /\ cnt.done = 2
    /\ hist.prev.cmd = "trans" /\ ~hist.prev.passed /\ hist.prev.errs = 1

-----------------------------------------------------------------------------
(* Who writes where, checked under Spec *)

\* the step is taken by a command, not by the user
StageStep == pc # "idle" \/ pc' # "idle" \/ hist'.runs # hist.runs

\* the command that takes the step
Running == IF pc # "idle" THEN pc ELSE IF pc' # "idle" THEN pc' ELSE res'.cmd

\* the directories that appear in the step
Created == dirs' \ dirs

\* C19: no command creates, changes or removes a file of the intake tree;
\* the staging directory and its files are written by ingestion only, the
\* normalized directory by the normalizer only, the transcripts directory by
\* the transcriber only, and no command removes a file from any of them.
Ownership ==
    [][StageStep =>
        /\ intake' = intake
        /\ (audio' # audio \/ IngestOutputDir \in Created) => Running = "ingest"
        /\ (proc' # proc \/ NormOutputDir \in Created) => Running = "norm"
        /\ (trans' # trans \/ "transcripts" \in Created) => Running = "trans"
        /\ Names(audio) \subseteq Names(audio')
        /\ Names(proc) \subseteq Names(proc')
        /\ Names(trans) \subseteq Names(trans')]_vars

\* the three commands have each written a file into their directory
OwnershipWitness ==
    /\ pc = "idle"
    /\ hist.runs = 3
    /\ Names(audio) # {} /\ Names(proc) # {} /\ Names(trans) # {}
    /\ intake = hist.start /\ intake # {}

-----------------------------------------------------------------------------
(* The loudness of normalized files, checked under SpecLoud *)

\* the signal's loudness is within 0.5 LU of -23 LUFS: its mean square is
\* within a factor 10 ^ 0.05 of the target's
WithinHalfLU(sig) ==
    /\ Energy(sig) * 10000 >= 8913 * TargetPower * Duration(sig)
    /\ Energy(sig) * 10000 <= 11220 * TargetPower * Duration(sig)

\* C20: every file the normalizer has written has an integrated loudness
\* within 0.5 LU of -23 LUFS, and every sample of it lies in [-1.0, 1.0].
LoudnessTarget ==
    \A m \in Names(proc) :
        /\ WithinHalfLU(proc[m].data.sig)
        /\ \A i \in DOMAIN proc[m].data.sig : proc[m].data.sig[i][1] <= Unity

-----------------------------------------------------------------------------
(* C21  Engine call order.  A generate_speech call on an XTTS engine       *)
(* invokes the synthesis model only if build_speaker_embedding has         *)
(* returned on that engine before; on an engine without such a call it     *)
(* raises ValueError and the model is not invoked.  A                      *)
(* build_speaker_embedding call that raises leaves the engine's stored     *)
(* speaker reference as it was.                                            *)

EngineCallOrder ==
    LET e == tts.last.engine
        b == tts.last.before
    IN  /\ tts.last.op = "generate_speech" =>
             /\ tts.m.synth # b.synth => e \in b.built
             /\ e \notin b.built =>
                   tts.last.raised = "ValueError" /\ tts.m.synth = b.synth
        /\ tts.last.op = "build_speaker_embedding" /\ tts.last.raised # "none" =>
             /\ tts.m.engines[e].speaker_embedding = b.engines[e].speaker_embedding
             /\ tts.m.engines[e].reference_audio = b.engines[e].reference_audio

\* the model is invoked on an engine whose last build call raised for want
\* of existing clip files
EngineCallOrderWitness ==
    /\ tts.last.op = "generate_speech"
    /\ tts.last.raised = "none"
    /\ tts.m.synth = tts.last.before.synth + 1
    /\ tts.m.engines[tts.last.engine].speaker_embedding \notin tts.files

-----------------------------------------------------------------------------
(* C22  The web handler never raises.  Whatever the inputs and whatever    *)
(* the engine does, a request returns a pair (audio_path, status).  The    *)
(* path is not None only if engine creation, the speaker embedding, the    *)
(* synthesis and the saving all succeeded; it is None for blank text, for  *)
(* no, a missing or an empty reference folder, for a Tortoise model        *)
(* choice and after any exception; and a request with a Tortoise model     *)
(* choice constructs no engine.                                            *)

HandlerNeverRaises ==
    LET a == tts.last.args
        b == tts.last.before
        r == tts.last.ret
        tortoise == Contains(tts.last.choice, "Tortoise")
    IN  tts.last.op = "ui" =>
          /\ tts.last.raised = "none"
          /\ r.audio_path # None =>
                /\ b.engine_cache.xtts # NoEngine \/ a.fate # "noload"
                /\ tts.m.engine_cache.xtts # NoEngine
                /\ tts.m.engine_cache.xtts \in tts.m.built
                /\ a.fate \notin {"notemp", "fails"} /\ tts.m.synth = b.synth + 1
                /\ a.fate # "nosave"
          /\ ( \/ Blank(a.text)
               \/ a.ref_folder # "ref"
               \/ a.found = 0
               \/ tortoise
               \/ a.seed = "negative" ) => r.audio_path = None
          /\ tortoise => tts.m = b

\* a request is answered with audio by an engine that an earlier request
\* constructed
HandlerNeverRaisesWitness ==
    /\ tts.last.op = "ui"
    /\ tts.last.raised = "none"
    /\ tts.last.ret.audio_path # None
    /\ tts.last.before.engine_cache.xtts # NoEngine

-----------------------------------------------------------------------------
(* C23  Worker-pool safety.  When the bodies of the copy loop are run by a *)
(* bounded pool of workers, in any order and interleaving, the first run   *)
(* over an intake tree ends with the staging directory and the returned    *)
(* count that the sequential loop produces, whatever order the directory   *)
(* walk gives the files in, also when two files map to one staged name.    *)

\* one iteration of the sequential copy loop over readable files
SequentialStep(acc, src) ==
    IF StagedName(src) \in Names(acc.staged) THEN acc
    ELSE [staged |-> Put(acc.staged, StagedName(src),
                         [data |-> src.data, mtime |-> src.mtime]),
          copied |-> acc.copied + 1]

RECURSIVE SequentialRun(_, _)
SequentialRun(order, acc) ==
    IF order = << >> THEN acc
    ELSE SequentialRun(Tail(order), SequentialStep(acc, Head(order)))

\* the orders in which a directory walk can yield the files of a set
WalkOrders(S) ==
    {o \in [1..Cardinality(S) -> S] : \A i, j \in DOMAIN o : i # j => o[i] # o[j]}

WorkerPoolSafety ==
    (IngestReturned /\ hist.ingests = 1) =>
        \A o \in WalkOrders(Found) :
            LET seq == SequentialRun(o, [staged |-> NoFiles, copied |-> 0])
            IN  audio = seq.staged /\ res.ret = seq.copied

-----------------------------------------------------------------------------
(* C24  Interrupt behaviour.  After an interrupt during an ingestion run   *)
(* over readable files, every file in the staging directory is a complete  *)
(* copy of a raw file that maps to its name, and once a later run has      *)
(* returned every discovered raw file has such a copy: no partly written   *)
(* file is taken for done.                                                 *)

CompleteCopy(n) ==
    \E f \in intake : StagedName(f) = n /\ audio[n].data = f.data

Interrupted == pc = "idle" /\ res.cmd = "ingest" /\ res.exit = 130

InterruptLeavesOutputsIntact ==
    /\ Interrupted => \A n \in Names(audio) : CompleteCopy(n)
    /\ (IngestReturned /\ hist.prev.cmd = "ingest" /\ ~hist.prev.passed) =>
          \A f \in Found : /\ StagedName(f) \in Names(audio)
                           /\ CompleteCopy(StagedName(f))

-----------------------------------------------------------------------------
(* C25  Retry after failure in the transcriber.  An audio file whose       *)
(* attempt ended in a logged error is attempted again by the next run;     *)
(* stated on the directories: between runs, every transcript file that the *)
(* freshness test takes for fresh holds the complete record of its audio   *)
(* file.                                                                   *)

FreshIsComplete ==
    pc = "idle" =>
        \A n \in TransInputs(audio) :
            Fresh(n) => trans[TranscriptName(n)].data.file = <<"audio/">> \o n

-----------------------------------------------------------------------------
(* C26  Within one normalizer run, two different accepted input files are  *)
(* written to two different output paths, so that no normalized file is    *)
(* written twice and the returned count is the number of normalized files  *)
(* the run wrote.                                                          *)

Accepted == {n \in DOMAIN hist.nstart : <<"done", n>> \in cnt.log}

DistinctOutputs ==
    NormReturned =>
        /\ \A a, b \in Accepted : a # b => ProcessedName(a) # ProcessedName(b)
        /\ res.ret = Cardinality({ProcessedName(n) : n \in Accepted})

-----------------------------------------------------------------------------
(* C27  Ingestion never ingests its own output.  Also with the output      *)
(* directory inside the intake root, no file of the staging directory is   *)
(* discovered as a raw file, and a run that follows another with the       *)
(* user's files unchanged leaves the set of staged files as it was.        *)

UserFiles(tree) == {f \in tree : f.dir # NestedOutputDir}

NoSelfIngestion ==
    IngestReturned =>
        /\ \A f \in Found : f.dir # NestedOutputDir
        /\ (hist.ingests >= 2 /\ UserFiles(hist.start) = UserFiles(hist.pstart)) =>
              hist.end = hist.pend

-----------------------------------------------------------------------------
(* C28  Engine cache.  Over any sequence of get_engine calls at most one   *)
(* engine of each type is ever constructed, and once a type's entry is     *)
(* filled every call for that type returns that instance.  A construction  *)
(* that raises leaves the entry empty and the exception reaches the        *)
(* caller, and the next call for the type calls the constructor again.     *)

EngineTypes == {"xtts", "tortoise"}

EngineCache ==
    LET b == tts.last.before
        a == tts.last.args
        type == IF Contains(tts.last.choice, "XTTS") THEN "xtts" ELSE "tortoise"
        constructed == Len(tts.m.engines) = Len(b.engines) + 1
    IN  /\ \A k \in EngineTypes :
              /\ Cardinality({i \in DOMAIN tts.m.engines :
                                 tts.m.engines[i].kind = k}) <= 1
              /\ b.engine_cache[k] # NoEngine =>
                    tts.m.engine_cache[k] = b.engine_cache[k]
        /\ tts.last.op = "get_engine" =>
              /\ tts.last.raised = "none" =>
                    /\ tts.last.ret # NoEngine
                    /\ tts.last.ret = tts.m.engine_cache[type]
                    /\ tts.m.engines[tts.last.ret].kind = type
              /\ tts.last.raised # "none" =>
                    /\ tts.m = b
                    /\ tts.m.engine_cache[type] = NoEngine
              /\ b.engine_cache[type] # NoEngine =>
                    tts.last.raised = "none" /\ tts.m = b
              /\ b.engine_cache[type] = NoEngine =>
                    IF a.loads THEN constructed /\ tts.last.raised = "none"
                    ELSE tts.last.raised # "none"

\* a call finds its type's entry filled while the other type's is still empty
EngineCacheWitness ==
    /\ tts.last.op = "get_engine"
    /\ tts.last.raised = "none"
    /\ tts.last.ret = tts.last.before.engine_cache.tortoise
    /\ tts.last.ret # NoEngine
    /\ tts.m.engine_cache.xtts = NoEngine

====
